---------------------------- MODULE Spec2Model ----------------------------
(***************************************************************************)
(* The todo list component of todo_frontend/src/App.js.                    *)
(*                                                                         *)
(* The component keeps four pieces of hook state (todos, input, editId,    *)
(* editValue).  Its event handlers are closures created by a render: they  *)
(* read the values the render saw (here: view), and they enqueue state     *)
(* updates that are either a plain value (setTodos([...todos, x]),         *)
(* setInput(''), setEditId(null)) or an updater function applied to the    *)
(* latest state (setTodos(todos => ...)).  The variables todos, input,     *)
(* editId and editValue hold the hook state with every enqueued update     *)
(* applied in order; view holds what the last render captured and offered  *)
(* on screen; pending names the handler whose updates wait for a render;   *)
(* clock is the last value read from Date.now().                           *)
(*                                                                         *)
(* A character string is a sequence of one-character strings.              *)
(***************************************************************************)
EXTENDS Integers, Sequences, FiniteSets

VARIABLES todos, input, editId, editValue, view, pending, clock

vars == <<todos, input, editId, editValue, view, pending, clock>>

-----------------------------------------------------------------------------
(* Bounds of the model *)

\* the add handler is not dispatched once the rendered list holds MaxTodos records
MaxTodos == 2

\* the wall clock runs from 1 to MaxClock milliseconds
MaxClock == 2

-----------------------------------------------------------------------------
(* Values *)

\* editId's initial and reset value
null == 0

\* the maxLength attribute of both text inputs
maxLength == 80

WhiteSpace == {" "}

Rep(c, n) == [i \in 1..n |-> c]

\* "a a...a": maxLength characters, a blank inside, none at the ends
Long80 == <<"a", " ">> \o Rep("a", maxLength - 2)

\* one character more than the inputs accept
Long81 == Long80 \o <<"a">>

\* the texts a user may try to type into an input
Texts == { <<>>, <<" ">>, <<" ", "a", " ">>, <<"b">>, Long80, Long81 }

\* the values Date.now() may return (milliseconds)
Clock == 1..MaxClock

-----------------------------------------------------------------------------
(* Pure functions *)

RECURSIVE trimStart(_)
trimStart(s) ==
    IF s = <<>> THEN s
    ELSE IF Head(s) \in WhiteSpace THEN trimStart(Tail(s)) ELSE s

RECURSIVE trimEnd(_)
trimEnd(s) ==
    IF s = <<>> THEN s
    ELSE IF s[Len(s)] \in WhiteSpace THEN trimEnd(SubSeq(s, 1, Len(s) - 1)) ELSE s

\* String.prototype.trim
trim(s) == trimEnd(trimStart(s))

\* todos.map(todo => todo.id === id ? {...todo, completed: !todo.completed} : todo)
toggleUpdater(ts, id) ==
    [i \in DOMAIN ts |->
        IF ts[i].id = id THEN [ts[i] EXCEPT !.completed = ~@] ELSE ts[i]]

\* todos.map(todo => todo.id === editId ? {...todo, title: newTitle} : todo)
editUpdater(ts, id, newTitle) ==
    [i \in DOMAIN ts |->
        IF ts[i].id = id THEN [ts[i] EXCEPT !.title = newTitle] ELSE ts[i]]

KeepUnless(t, id) == t.id # id

\* todos.filter(todo => todo.id !== id)
deleteUpdater(ts, id) ==
    LET Keep(t) == KeepUnless(t, id) IN SelectSeq(ts, Keep)

-----------------------------------------------------------------------------
(* What a render puts on screen *)

\* the item of todo id shows the edit form (editId === todo.id)
editFormShown(v, id) == v.editId = id

\* The action buttons as they would be if every item showed them
todoActionsShownAlways(v, id) == TRUE

\* the item of todo id shows its title, its Edit and its Delete button
\* (editId !== todo.id)
todoActionsShown(v, id) == v.editId # id

\* the hook state as a render captures it
Snapshot == [todos |-> todos, input |-> input,
             editId |-> editId, editValue |-> editValue]

NoEvent == [op |-> "none", id |-> null]

\* A handler runs on a user event (submit, click, change, double click).
\* React renders the updates of one event before the browser delivers the
\* next one, so a handler starts only when no update waits for a render;
\* its own updates then wait for the next render.
Dispatched(op, id) ==
    /\ pending = NoEvent
    /\ pending' = [op |-> op, id |-> id]
    /\ view' = view

-----------------------------------------------------------------------------
Init ==
    /\ todos = <<>>
    /\ input = <<>>
    /\ editId = null
    /\ editValue = <<>>
    /\ view = [todos |-> <<>>, input |-> <<>>, editId |-> null, editValue |-> <<>>]
    /\ pending = NoEvent
    /\ clock = 1

\* onChange of the add input: setInput(e.target.value)
onChangeInput ==
    \E v \in Texts :
        /\ Len(v) <= maxLength
        /\ input' = v
        /\ UNCHANGED <<todos, editId, editValue, clock>>
        /\ Dispatched("onChangeInput", null)

\* The add handler as it would be without the trim: stores the raw input
handleAddTodoRaw ==
    \E now \in Clock :
        /\ now >= clock
        /\ trim(view.input) # <<>>
        /\ Len(view.todos) < MaxTodos
        /\ todos' = Append(view.todos,
                           [id |-> now, title |-> view.input, completed |-> FALSE])
        /\ input' = <<>>
        /\ clock' = now
        /\ UNCHANGED <<editId, editValue>>
        /\ Dispatched("handleAddTodo", now)

\* The add handler as it would be if it put the new record first
handleAddTodoFirst ==
    \E now \in Clock :
        /\ now >= clock
        /\ trim(view.input) # <<>>
        /\ Len(view.todos) < MaxTodos
        /\ todos' = <<[id |-> now, title |-> trim(view.input), completed |-> FALSE]>>
                        \o view.todos
        /\ input' = <<>>
        /\ clock' = now
        /\ UNCHANGED <<editId, editValue>>
        /\ Dispatched("handleAddTodo", now)

\* Submit of the add form.  The handler checks the trimmed input itself, so
\* it is modelled for blank input too.  Date.now() is read from a clock that
\* does not run backwards here; two reads within one millisecond return the
\* same value.
handleAddTodo ==
    LET title == trim(view.input) IN
    IF title = <<>>
    THEN /\ UNCHANGED <<todos, input, editId, editValue, clock>>
         /\ Dispatched("handleAddTodo", null)
    ELSE \E now \in Clock :
            /\ now >= clock
            /\ Len(view.todos) < MaxTodos
            /\ todos' = Append(view.todos,
                               [id |-> now, title |-> title, completed |-> FALSE])
            /\ input' = <<>>
            /\ clock' = now
            /\ UNCHANGED <<editId, editValue>>
            /\ Dispatched("handleAddTodo", now)

toggleTodo ==
    \E i \in DOMAIN view.todos :
        LET id == view.todos[i].id IN
        /\ todos' = toggleUpdater(todos, id)
        /\ UNCHANGED <<input, editId, editValue, clock>>
        /\ Dispatched("toggleTodo", id)

startEdit ==
    \E i \in DOMAIN view.todos :
        LET id == view.todos[i].id IN
        /\ todoActionsShown(view, id)
        /\ editId' = id
        /\ editValue' = view.todos[i].title
        /\ UNCHANGED <<todos, input, clock>>
        /\ Dispatched("startEdit", id)

\* onChange of the edit input: setEditValue(e.target.value)
onChangeEdit ==
    \E i \in DOMAIN view.todos, v \in Texts :
        /\ editFormShown(view, view.todos[i].id)
        /\ Len(v) <= maxLength
        /\ editValue' = v
        /\ UNCHANGED <<todos, input, editId, clock>>
        /\ Dispatched("onChangeEdit", view.editId)

\* The save handler as it would be if it closed the session on blank text too
handleEditSaveCloses ==
    LET newTitle == trim(view.editValue) IN
    /\ \E i \in DOMAIN view.todos : editFormShown(view, view.todos[i].id)
    /\ todos' = IF newTitle = <<>> THEN todos
                ELSE editUpdater(todos, view.editId, newTitle)
    /\ editId' = null
    /\ editValue' = <<>>
    /\ UNCHANGED <<input, clock>>
    /\ Dispatched("handleEditSave", view.editId)

handleEditSave ==
    LET newTitle == trim(view.editValue) IN
    /\ \E i \in DOMAIN view.todos : editFormShown(view, view.todos[i].id)
    /\ IF newTitle = <<>>
       THEN UNCHANGED <<todos, editId, editValue>>
       ELSE /\ todos' = editUpdater(todos, view.editId, newTitle)
            /\ editId' = null
            /\ editValue' = <<>>
    /\ UNCHANGED <<input, clock>>
    /\ Dispatched("handleEditSave", view.editId)

cancelEdit ==
    /\ \E i \in DOMAIN view.todos : editFormShown(view, view.todos[i].id)
    /\ editId' = null
    /\ editValue' = <<>>
    /\ UNCHANGED <<todos, input, clock>>
    /\ Dispatched("cancelEdit", view.editId)

deleteTodo ==
    \E i \in DOMAIN view.todos :
        LET id == view.todos[i].id IN
        /\ todoActionsShown(view, id)
        /\ todos' = deleteUpdater(todos, id)
        /\ UNCHANGED <<input, editId, editValue, clock>>
        /\ Dispatched("deleteTodo", id)

\* The render as it would be if the closures kept the list of the render
\* before (handlers memoized without todos among their dependencies)
RenderStaleTodos ==
    /\ pending # NoEvent
    /\ view' = [Snapshot EXCEPT !.todos = view.todos]
    /\ pending' = NoEvent
    /\ UNCHANGED <<todos, input, editId, editValue, clock>>

\* React processes the update queues and calls App again: the new closures
\* and the screen see the latest state
Render ==
    /\ pending # NoEvent
    /\ view' = Snapshot
    /\ pending' = NoEvent
    /\ UNCHANGED <<todos, input, editId, editValue, clock>>

Next ==
    \/ onChangeInput
    \/ handleAddTodo
    \/ toggleTodo
    \/ startEdit
    \/ onChangeEdit
    \/ handleEditSave
    \/ cancelEdit
    \/ deleteTodo
    \/ Render

Spec == Init /\ [][Next]_vars

-----------------------------------------------------------------------------
(* Properties *)

\* the sequence s without its k-th element
RemoveAt(s, k) == SubSeq(s, 1, k - 1) \o SubSeq(s, k + 1, Len(s))

IsStored(ts, id) == \E k \in DOMAIN ts : ts[k].id = id

\* C1: in every reachable state the ids of the stored todos are pairwise
\* distinct, also when two adds read the same clock value.
C1_IdsPairwiseDistinct ==
    \A i, j \in DOMAIN todos : i # j => todos[i].id # todos[j].id

\* C2: in every reachable state every stored title is non-empty, holds a
\* character that is not white space, neither starts nor ends with white
\* space, and is at most 80 characters long.
C2_TitlesTrimmedBounded ==
    \A i \in DOMAIN todos :
        LET t == todos[i].title IN
        /\ t # <<>>
        /\ \E k \in DOMAIN t : t[k] \notin WhiteSpace
        /\ t[1] \notin WhiteSpace
        /\ t[Len(t)] \notin WhiteSpace
        /\ Len(t) <= maxLength

\* an edit of padded text was just saved over a record that an add had
\* stored, and another record holds a title of full length
C2_Witness ==
    /\ pending.op = "handleEditSave"
    /\ view.editValue # trim(view.editValue)
    /\ \E i \in DOMAIN todos :
          /\ todos[i].id = view.editId
          /\ todos[i].title = trim(view.editValue)
          /\ view.todos[i].title # todos[i].title
    /\ \E i \in DOMAIN todos : Len(todos[i].title) = maxLength

\* C3: an add whose trimmed input is non-empty appends one record (the
\* trimmed title, completed = false) at the end of the store and leaves
\* the records before it as they were; an add whose trimmed input is empty
\* leaves the store as it was.  With the empty initial store this makes the
\* store the sequence of the non-blank adds in call order.
C3_AddAppendsOrNoOp ==
    [][pending'.op = "handleAddTodo" =>
          IF trim(input) = <<>>
          THEN todos' = todos
          ELSE /\ Len(todos') = Len(todos) + 1
               /\ SubSeq(todos', 1, Len(todos)) = todos
               /\ todos'[Len(todos')].title = trim(input)
               /\ todos'[Len(todos')].completed = FALSE
               /\ todos'[Len(todos')].id = pending'.id]_vars

\* the second of two adds has just appended its trimmed title behind the first
C3_Witness ==
    /\ pending.op = "handleAddTodo"
    /\ Len(view.todos) = 1
    /\ Len(todos) = 2
    /\ todos[1] = view.todos[1]
    /\ view.input # trim(view.input)
    /\ todos[2].title = trim(view.input)
    /\ todos[2].title # todos[1].title
    /\ ~todos[2].completed

\* C4: toggle(X.id) for a stored todo X flips X.completed and changes
\* nothing else in the store (no other record, not the length, not the
\* order); toggling the same id again restores the store.
C4_ToggleFlipsExactlyOne ==
    [][pending'.op = "toggleTodo" =>
          /\ \A k \in DOMAIN todos :
                todos[k].id = pending'.id =>
                    todos' = [todos EXCEPT ![k].completed = ~@]
          /\ toggleUpdater(todos', pending'.id) = todos]_vars

\* C5: delete(X.id) for a stored todo X removes X and nothing else: the
\* store is one record shorter and the others keep their order; delete
\* with an id no record has leaves the store as it was.
C5_DeleteRemovesExactlyOne ==
    [][pending'.op = "deleteTodo" =>
          IF IsStored(todos, pending'.id)
          THEN \A k \in DOMAIN todos :
                  todos[k].id = pending'.id => todos' = RemoveAt(todos, k)
          ELSE todos' = todos]_vars

\* C6: saving the edit of stored todo X with text that trims to a non-empty
\* title sets X.title to the trimmed text and changes nothing else in the
\* store; saving text that trims to nothing leaves the store as it was.
C6_SaveRetitlesExactlyOne ==
    [][pending'.op = "handleEditSave" =>
          IF trim(editValue) = <<>>
          THEN todos' = todos
          ELSE \A k \in DOMAIN todos :
                  todos[k].id = editId =>
                      todos' = [todos EXCEPT ![k].title = trim(editValue)]]_vars

\* C7 as claimed: a save in an edit session always ends in Idle, whatever
\* the text.
C7_SaveAlwaysIdle ==
    [][pending'.op = "handleEditSave" =>
          editId' = null /\ editValue' = <<>>]_vars

\* C7 as amended: a save in an edit session ends in Idle when the text trims
\* to a non-empty title; when the text is empty or all white space the
\* session stays open on the same todo with the same text.
C7_SaveIdleUnlessBlank ==
    [][pending'.op = "handleEditSave" =>
          IF trim(editValue) = <<>>
          THEN editId' = editId /\ editValue' = editValue /\ editId' # null
          ELSE editId' = null /\ editValue' = <<>>]_vars

\* a save of all-white-space text was just handled and the session is open
C7_Witness ==
    /\ pending.op = "handleEditSave"
    /\ view.editValue = <<" ">>
    /\ editId = view.editId
    /\ editId # null
    /\ editValue = <<" ">>

\* C8: in every reachable state at most one record of the list is in edit
\* mode (satisfies editId = record.id).
C8_AtMostOneEditing ==
    Cardinality({i \in DOMAIN todos : editId = todos[i].id}) <= 1

\* C9: every dispatched store operation acts on the store the previous one
\* produced: add appends to it, toggle, edit-save and delete apply their
\* updater to it; no update is lost.
C9_AppliedInDispatchOrder ==
    [][/\ pending'.op = "handleAddTodo" =>
            todos' = IF trim(view.input) = <<>> THEN todos
                     ELSE Append(todos, [id |-> pending'.id,
                                         title |-> trim(view.input),
                                         completed |-> FALSE])
       /\ pending'.op = "toggleTodo" =>
            todos' = toggleUpdater(todos, pending'.id)
       /\ pending'.op = "handleEditSave" =>
            todos' = IF trim(view.editValue) = <<>> THEN todos
                     ELSE editUpdater(todos, pending'.id, trim(view.editValue))
       /\ pending'.op = "deleteTodo" =>
            todos' = deleteUpdater(todos, pending'.id)]_vars

\* an add has just run after a toggle: the toggled record is still toggled
\* and the new record stands behind it
C9_Witness ==
    /\ pending.op = "handleAddTodo"
    /\ Len(view.todos) = 1
    /\ view.todos[1].completed
    /\ Len(todos) = 2
    /\ todos[1].completed
    /\ ~todos[2].completed

\* C10: whenever an edit session is open, the store holds a todo with
\* id = editId.
C10_EditedTodoStored ==
    editId # null => IsStored(todos, editId)

\* a delete has just removed a record while another todo's session is open
C10_Witness ==
    /\ pending.op = "deleteTodo"
    /\ Len(todos) < Len(view.todos)
    /\ editId # null
    /\ view.editId = editId

=============================================================================
